---- MODULE Spec2Model ----
(***************************************************************************)
(* Model of bot.py: a Telegram bot that turns an episode page URL into an  *)
(* MP4.  Strings are sequences of one-character strings, so that strip,    *)
(* split, endswith and the f-strings of the source are computed rather     *)
(* than assumed.                                                           *)
(***************************************************************************)
EXTENDS Integers, Sequences, FiniteSets, TLC

VARIABLES job, fs, downloads_dir, arg, ret

vars == <<job, fs, downloads_dir, arg, ret>>

(***************************************************************************)
(* Bounds                                                                  *)
(***************************************************************************)
\* messages delivered to the bot
NumJobs == 2

\* longest slug and longest episode token of the parser inputs
MaxSeg == 2

\* longest data.sources list of the resolver inputs
MaxSources == 2

(***************************************************************************)
(* Python str helpers                                                      *)
(***************************************************************************)
Min(S) == CHOOSE x \in S : \A y \in S : x <= y

Max(S) == CHOOSE x \in S : \A y \in S : x >= y

Last(s) == s[Len(s)]

\* s.find(c, from) with 1-based positions; 0 when absent
Find(s, c, from) ==
    LET I == {i \in from..Len(s) : s[i] = c}
    IN  IF I = {} THEN 0 ELSE Min(I)

\* s.rfind(c); 0 when absent
RFind(s, c) ==
    LET I == {i \in 1..Len(s) : s[i] = c}
    IN  IF I = {} THEN 0 ELSE Max(I)

RECURSIVE LStrip(_, _)
LStrip(s, cs) ==
    IF s # <<>> /\ Head(s) \in cs THEN LStrip(Tail(s), cs) ELSE s

RECURSIVE RStrip(_, _)
RStrip(s, cs) ==
    IF s # <<>> /\ Last(s) \in cs THEN RStrip(SubSeq(s, 1, Len(s) - 1), cs) ELSE s

Strip(s, cs) == RStrip(LStrip(s, cs), cs)

RECURSIVE Split(_, _)
Split(s, c) ==
    LET i == Find(s, c, 1)
    IN  IF i = 0 THEN <<s>>
        ELSE <<SubSeq(s, 1, i - 1)>> \o Split(SubSeq(s, i + 1, Len(s)), c)

EndsWith(s, t) ==
    /\ Len(s) >= Len(t)
    /\ SubSeq(s, Len(s) - Len(t) + 1, Len(s)) = t

\* all sequences over alphabet A of length lo..hi
SeqsOf(A, lo, hi) == UNION {[1..k -> A] : k \in lo..hi}

(***************************************************************************)
(* urllib.parse.urlparse(url).path                                         *)
(***************************************************************************)
Whitespace == {" "}

Letters == {"a", "b", "c", "d", "e", "h", "i", "o", "p", "s", "t", "u", "w", "x"}

Digits == {"1", "2", "3", "8"}

SchemeChars == Letters \cup Digits \cup {"+", "-", "."}

HTTP == <<"h", "t", "t", "p">>

HTTPS == <<"h", "t", "t", "p", "s">>

\* the schemes of urllib.parse.uses_params the inputs can carry
UsesParams == {<<>>, HTTP, HTTPS}

\* scheme and remainder: the text before the first ':' is a scheme when it
\* starts with a letter and holds scheme characters only
SplitScheme(url) ==
    LET i == Find(url, ":", 1)
    IN  IF /\ i > 1
           /\ url[1] \in Letters
           /\ \A k \in 1..(i - 1) : url[k] \in SchemeChars
        THEN [scheme |-> SubSeq(url, 1, i - 1), rest |-> SubSeq(url, i + 1, Len(url))]
        ELSE [scheme |-> <<>>, rest |-> url]

\* _splitnetloc: after '//' the authority runs to the first of / ? #
SplitNetloc(url) ==
    IF Len(url) >= 2 /\ SubSeq(url, 1, 2) = <<"/", "/">>
    THEN LET D == {i \in 3..Len(url) : url[i] \in {"/", "?", "#"}}
             delim == IF D = {} THEN Len(url) + 1 ELSE Min(D)
         IN  SubSeq(url, delim, Len(url))
    ELSE url

\* url.split(c, 1)[0]
Before(url, c) ==
    LET i == Find(url, c, 1)
    IN  IF i = 0 THEN url ELSE SubSeq(url, 1, i - 1)

\* _splitparams: the ;parameters of the last path segment are cut off
SplitParams(url) ==
    LET slash == RFind(url, "/")
        i == IF slash > 0 THEN Find(url, ";", slash) ELSE Find(url, ";", 1)
    IN  IF i = 0 THEN url ELSE SubSeq(url, 1, i - 1)

UrlPath(url) ==
    LET s == SplitScheme(LStrip(url, Whitespace))
        p == Before(Before(SplitNetloc(s.rest), "#"), "?")
    IN  IF s.scheme \in UsesParams THEN SplitParams(p) ELSE p

(***************************************************************************)
(* Helpers of bot.py                                                       *)
(***************************************************************************)
NoStr == <<>>

\* variant: the slug is taken at index 1 from the front instead of -2
extract_slug_ep_front(hianime_url) ==
    LET parts == Split(Strip(UrlPath(hianime_url), {"/"}), "/")
        n == Len(parts)
    IN  IF n < 2
        THEN [ok |-> FALSE, slug |-> NoStr, ep |-> NoStr,
              exc |-> "list index out of range"]
        ELSE [ok |-> TRUE, slug |-> parts[2],
              ep |-> Last(Split(parts[n], "-")), exc |-> ""]

extract_slug_ep(hianime_url) ==
    LET parts == Split(Strip(UrlPath(hianime_url), {"/"}), "/")
        n == Len(parts)
    IN  IF n < 2
        THEN [ok |-> FALSE, slug |-> NoStr, ep |-> NoStr,
              exc |-> "list index out of range"]
        ELSE [ok |-> TRUE, slug |-> parts[n - 1],
              ep |-> Last(Split(parts[n], "-")), exc |-> ""]

M3U8 == <<".", "m", "3", "u", "8">>

None == [some |-> FALSE, val |-> NoStr]

Some(v) == [some |-> TRUE, val |-> v]

\* the test of the for loop over data.sources
IsHlsSource(s) ==
    \/ s.type = "hls"
    \/ (s.hasUrl /\ EndsWith(s.url, M3U8))

Failure(msg) == [ok |-> FALSE, m3u8 |-> NoStr, referer |-> None, exc |-> msg]

\* variant: the first source is taken whatever its type
get_first_source(slug, ep, resp) ==
    LET sources == IF resp.hasData /\ resp.hasSources THEN resp.sources ELSE <<>>
    IN  IF resp.net # "ok" THEN Failure("Connection refused")
        ELSE IF resp.status # 200 THEN Failure("500 Server Error")
        ELSE IF ~resp.json THEN Failure("Expecting value")
        ELSE IF sources = <<>> THEN Failure("No HLS source found")
        ELSE IF ~sources[1].hasUrl THEN Failure("'url'")
        ELSE [ok |-> TRUE, m3u8 |-> sources[1].url,
              referer |-> IF resp.hasData THEN resp.referer ELSE None,
              exc |-> ""]

\* resp is what requests.get yields for the request built from slug and ep
get_m3u8_and_referer(slug, ep, resp) ==
    LET sources == IF resp.hasData /\ resp.hasSources THEN resp.sources ELSE <<>>
        hits == {i \in 1..Len(sources) : IsHlsSource(sources[i])}
    IN  IF resp.net # "ok" THEN Failure("Connection refused")
        ELSE IF resp.status # 200 THEN Failure("500 Server Error")
        ELSE IF ~resp.json THEN Failure("Expecting value")
        ELSE IF hits = {} THEN Failure("No HLS source found")
        ELSE IF ~sources[Min(hits)].hasUrl THEN Failure("'url'")
        ELSE [ok |-> TRUE, m3u8 |-> sources[Min(hits)].url,
              referer |-> IF resp.hasData THEN resp.referer ELSE None,
              exc |-> ""]

\* variant: the Referer is not forwarded
remux_without_referer(m3u8_url, referer, output_path) ==
    <<<<"ffmpeg">>, <<"-y">>, <<"-i">>, m3u8_url, <<"-c">>, <<"copy">>, output_path>>

\* the argument list handed to subprocess.run
remux_hls_to_mp4(m3u8_url, referer, output_path) ==
    <<<<"ffmpeg">>, <<"-y">>>>
    \o (IF referer.some /\ referer.val # NoStr
        THEN <<<<"-headers">>, <<"Referer: ">> \o referer.val \o <<"\r\n">>>>
        ELSE <<>>)
    \o <<<<"-i">>, m3u8_url, <<"-c">>, <<"copy">>, output_path>>

\* f"downloads/{slug}_{ep}.mp4"
OutFile(slug, ep) == <<"downloads/">> \o slug \o <<"_">> \o ep \o <<".mp4">>

(***************************************************************************)
(* Inputs of the helper calls                                              *)
(***************************************************************************)
WATCH == <<"/", "w", "a", "t", "c", "h", "/">>

EPISODE == <<"/", "e", "p", "i", "s", "o", "d", "e", "-">>

Schemes == {<<>>, HTTP \o <<":", "/", "/", "x">>, <<"x", ":">>}

Pres == {<<>>, <<"/", "a">>}

Tails == {<<>>, <<"/">>, <<"?", "1">>, <<"#", "1">>}

SlugAlphabet == {"a", "-", "_", ";"}

EpAlphabet == {"1", "-", "_", ";"}

\* the path .../watch/{slug}/episode-{n}
EpisodePath(pre, slug, n) == pre \o WATCH \o slug \o EPISODE \o n

UrlCases ==
    [shape : {"episode"}, scheme : Schemes, pre : Pres,
     slug : SeqsOf(SlugAlphabet, 1, MaxSeg), n : SeqsOf(EpAlphabet, 0, MaxSeg),
     tail : Tails]
    \cup
    [shape : {"bare"}, scheme : Schemes, pre : {<<>>},
     slug : SeqsOf(SlugAlphabet, 0, 1), n : {<<>>}, tail : Tails]

BuildUrl(c) ==
    IF c.shape = "episode"
    THEN c.scheme \o EpisodePath(c.pre, c.slug, c.n) \o c.tail
    ELSE c.scheme \o c.slug \o c.tail

SrcUrls ==
    {<<"a">> \o M3U8, <<"b">> \o M3U8, <<"a">>, <<"b">>}

Sources ==
    [type : {"hls", "mp4", "absent"}, isHls : BOOLEAN, hasUrl : {TRUE}, url : SrcUrls]
    \cup
    [type : {"hls", "mp4", "absent"}, isHls : BOOLEAN, hasUrl : {FALSE}, url : {NoStr}]

Referers == {None, Some(NoStr), Some(<<"r">>)}

GoodResponse(srcs, ref) ==
    [net |-> "ok", status |-> 200, json |-> TRUE, hasData |-> TRUE,
     hasSources |-> TRUE, sources |-> srcs, referer |-> ref]

BadResponses ==
    {[GoodResponse(<<>>, None) EXCEPT !.net = "error"],
     [GoodResponse(<<>>, None) EXCEPT !.status = 500],
     [GoodResponse(<<>>, None) EXCEPT !.json = FALSE],
     [GoodResponse(<<>>, None) EXCEPT !.hasData = FALSE],
     [GoodResponse(<<>>, Some(<<"r">>)) EXCEPT !.hasSources = FALSE]}

ApiResponses ==
    {GoodResponse(srcs, ref) : srcs \in SeqsOf(Sources, 0, MaxSources), ref \in Referers}
    \cup BadResponses

OutPaths == {OutFile(<<"a">>, <<"1">>)}

(***************************************************************************)
(* Per-message job state of download_and_send                              *)
(***************************************************************************)
Jobs == 1..NumJobs

\* no response received yet
NoResponse == [GoodResponse(<<>>, None) EXCEPT !.net = "none"]

IdleJob ==
    [pc |-> "idle", url |-> NoStr, slug |-> NoStr, ep |-> NoStr,
     m3u8_url |-> NoStr, referer |-> None, out_file |-> NoStr, cmd |-> <<>>,
     status |-> <<>>, exc |-> "", calls |-> <<>>, shown |-> <<>>, video |-> 0,
     resp |-> NoResponse]

NoFiles == <<>>

(***************************************************************************)
(* Specification of the helper calls: one input, then the call(s) on it    *)
(***************************************************************************)
Pending == [stage |-> "pending"]

InitCalls ==
    /\ job = [j \in Jobs |-> IdleJob]
    /\ fs = NoFiles
    /\ downloads_dir = FALSE
    /\ arg \in [fn : {"extract_slug_ep"}, case : UrlCases]
               \cup [fn : {"get_m3u8_and_referer"}, resp : ApiResponses]
    /\ ret = Pending

CallExtract ==
    /\ arg.fn = "extract_slug_ep"
    /\ ret = Pending
    /\ ret' = [stage |-> "parsed", val |-> extract_slug_ep(BuildUrl(arg.case))]
    /\ UNCHANGED <<job, fs, downloads_dir, arg>>

CallResolve ==
    /\ arg.fn = "get_m3u8_and_referer"
    /\ ret = Pending
    /\ ret' = [stage |-> "resolved",
               val |-> get_m3u8_and_referer(<<"a">>, <<"1">>, arg.resp)]
    /\ UNCHANGED <<job, fs, downloads_dir, arg>>

CallRemux ==
    /\ ret.stage = "resolved"
    /\ ret.val.ok
    /\ \E out \in OutPaths :
         ret' = [stage |-> "remuxed", val |-> ret.val, out |-> out,
                 cmd |-> remux_hls_to_mp4(ret.val.m3u8, ret.val.referer, out)]
    /\ UNCHANGED <<job, fs, downloads_dir, arg>>

NextCalls == CallExtract \/ CallResolve \/ CallRemux

SpecCalls == InitCalls /\ [][NextCalls]_vars

(***************************************************************************)
(* The chat handler: main() registers download_and_send for text messages  *)
(***************************************************************************)
\* variant: the builder is given concurrent_updates(True)
ConcurrentUpdatesOn == TRUE

\* ApplicationBuilder() is built without concurrent_updates: the framework
\* awaits one handler invocation before it takes the next update
ConcurrentUpdates == FALSE

\* the status texts, their emoji and ellipsis written in ASCII
FETCHING == <<"Fetching stream URL...">>

REMUXING == <<"Downloading & remuxing...">>

UPLOADING == <<"Uploading to Telegram...">>

DONE == <<"Done!">>

FailedLine(e) == <<"Failed: ", e>>

Ended == {"done", "failed", "aborted"}

\* message texts the bot receives
MsgAB_C == HTTP \o <<":", "/", "/", "x">> \o WATCH \o <<"a", "_", "b">> \o EPISODE \o <<"c">>

MsgA_BC == HTTP \o <<":", "/", "/", "x">> \o WATCH \o <<"a">> \o EPISODE \o <<"b", "_", "c">>

Messages == {MsgAB_C, MsgAB_C \o <<" ">>, MsgA_BC, <<"h", "i">>}

HlsSource == [type |-> "hls", isHls |-> FALSE, hasUrl |-> TRUE, url |-> <<"a">> \o M3U8]

Mp4Source == [type |-> "mp4", isHls |-> FALSE, hasUrl |-> TRUE, url |-> <<"a">>]

\* responses of the API the handler meets
HandlerResponses ==
    {GoodResponse(<<HlsSource>>, Some(<<"r">>)),
     GoodResponse(<<>>, None),
     GoodResponse(<<Mp4Source>>, None),
     [GoodResponse(<<>>, None) EXCEPT !.hasSources = FALSE],
     [GoodResponse(<<>>, None) EXCEPT !.status = 500],
     [GoodResponse(<<>>, None) EXCEPT !.json = FALSE]}

Log(j, op, outcome) == Append(job[j].calls, <<op, outcome>>)

\* an exception raised inside the try block: control goes to the except clause
Raise(j, op, e) ==
    [job EXCEPT ![j].pc = "except", ![j].exc = e, ![j].calls = Log(j, op, "raise")]

\* a successful status.edit_text(text)
Edit(j, op, text, next) ==
    [job EXCEPT ![j].pc = next, ![j].status = text,
                ![j].shown = Append(job[j].shown, text),
                ![j].calls = Log(j, op, "ok")]

\* url = update.message.text.strip(), for every message text
UrlOf == [text \in Messages |-> Strip(text, Whitespace)]

\* extract_slug_ep(url), for every url the handler receives
SlugEpOf == [u \in {UrlOf[text] : text \in Messages} |-> extract_slug_ep(u)]

\* the framework hands update j to the handler
Dispatch(j) ==
    /\ job[j].pc = "idle"
    /\ \A k \in Jobs : k < j => job[k].pc # "idle"
    /\ ConcurrentUpdates \/ \A k \in Jobs \ {j} : job[k].pc \in Ended \cup {"idle"}

\* url = update.message.text.strip(); status = await reply_text(...)
Receive(j) ==
    /\ Dispatch(j)
    /\ \E text \in Messages :
         \/ job' = [job EXCEPT ![j].pc = "extract",
                               ![j].url = UrlOf[text],
                               ![j].status = FETCHING,
                               ![j].shown = <<FETCHING>>,
                               ![j].calls = Log(j, "reply_text", "ok")]
         \/ job' = [job EXCEPT ![j].pc = "aborted",
                               ![j].url = UrlOf[text],
                               ![j].calls = Log(j, "reply_text", "raise")]
    /\ UNCHANGED <<fs, downloads_dir, arg, ret>>

\* the try block after slug, ep = extract_slug_ep(url)
Extracted(j) ==
    LET r == SlugEpOf[job[j].url]
    IN  IF r.ok
        THEN [job EXCEPT ![j].pc = "resolve", ![j].slug = r.slug, ![j].ep = r.ep,
                         ![j].calls = Log(j, "extract_slug_ep", "ok")]
        ELSE Raise(j, "extract_slug_ep", r.exc)

\* slug, ep = extract_slug_ep(url)
Extract(j) ==
    /\ job[j].pc = "extract"
    /\ job' = Extracted(j)
    /\ UNCHANGED <<fs, downloads_dir, arg, ret>>

\* m3u8_url, referer = get_m3u8_and_referer(slug, ep)
Resolve(j) ==
    /\ job[j].pc = "resolve"
    /\ \E resp \in HandlerResponses :
         LET r == get_m3u8_and_referer(job[j].slug, job[j].ep, resp)
         IN  job' = IF r.ok
                    THEN [job EXCEPT ![j].pc = "prepare", ![j].resp = resp,
                                     ![j].m3u8_url = r.m3u8,
                                     ![j].referer = r.referer,
                                     ![j].calls = Log(j, "requests.get", "ok")]
                    ELSE [Raise(j, "requests.get", r.exc) EXCEPT ![j].resp = resp]
    /\ UNCHANGED <<fs, downloads_dir, arg, ret>>

\* variant: the remuxing status edit sits outside the try block
PrepareUncaught(j) ==
    /\ job[j].pc = "prepare"
    /\ downloads_dir' = TRUE
    /\ LET out == OutFile(job[j].slug, job[j].ep)
       IN  \/ job' = [Edit(j, "edit_remuxing", REMUXING, "remux")
                        EXCEPT ![j].out_file = out]
           \/ job' = [job EXCEPT ![j].pc = "aborted", ![j].out_file = out,
                                 ![j].calls = Log(j, "edit_remuxing", "raise")]
    /\ UNCHANGED <<fs, arg, ret>>

\* os.makedirs; out_file = ...; await status.edit_text(remuxing)
Prepare(j) ==
    /\ job[j].pc = "prepare"
    /\ downloads_dir' = TRUE
    /\ LET out == OutFile(job[j].slug, job[j].ep)
       IN  \/ job' = [Edit(j, "edit_remuxing", REMUXING, "remux")
                        EXCEPT ![j].out_file = out]
           \/ job' = [Raise(j, "edit_remuxing", "Timed out")
                        EXCEPT ![j].out_file = out]
    /\ UNCHANGED <<fs, arg, ret>>

\* ffmpeg -y rewrites output_path; only exit status 0 promises a whole file
WriteFile(path, j, whole) ==
    [p \in DOMAIN fs \cup {path} |->
        IF p = path THEN [writer |-> j, whole |-> whole] ELSE fs[p]]

\* variant: subprocess.run(cmd) without check=True
RemuxNoCheck(j) ==
    /\ job[j].pc = "remux"
    /\ LET cmd == remux_hls_to_mp4(job[j].m3u8_url, job[j].referer, job[j].out_file)
       IN  \/ /\ job' = [job EXCEPT ![j].pc = "edit_uploading", ![j].cmd = cmd,
                                    ![j].calls = Log(j, "ffmpeg", "ok")]
              /\ fs' = WriteFile(job[j].out_file, j, TRUE)
           \/ /\ job' = [job EXCEPT ![j].pc = "edit_uploading", ![j].cmd = cmd,
                                    ![j].calls = Log(j, "ffmpeg", "exit 1")]
              /\ fs' \in {fs, WriteFile(job[j].out_file, j, FALSE)}
    /\ UNCHANGED <<downloads_dir, arg, ret>>

\* remux_hls_to_mp4(m3u8_url, referer, out_file): subprocess.run(cmd, check=True)
Remux(j) ==
    /\ job[j].pc = "remux"
    /\ LET cmd == remux_hls_to_mp4(job[j].m3u8_url, job[j].referer, job[j].out_file)
       IN  \/ /\ job' = [job EXCEPT ![j].pc = "edit_uploading", ![j].cmd = cmd,
                                    ![j].calls = Log(j, "ffmpeg", "ok")]
              /\ fs' = WriteFile(job[j].out_file, j, TRUE)
           \/ /\ job' = [Raise(j, "ffmpeg", "returned non-zero exit status 1")
                           EXCEPT ![j].cmd = cmd]
              /\ fs' \in {fs, WriteFile(job[j].out_file, j, FALSE)}
    /\ UNCHANGED <<downloads_dir, arg, ret>>

\* await status.edit_text(uploading)
EditUploading(j) ==
    /\ job[j].pc = "edit_uploading"
    /\ \/ job' = Edit(j, "edit_uploading", UPLOADING, "upload")
       \/ job' = Raise(j, "edit_uploading", "Timed out")
    /\ UNCHANGED <<fs, downloads_dir, arg, ret>>

\* with open(out_file, "rb") as video: await context.bot.send_video(...)
Upload(j) ==
    /\ job[j].pc = "upload"
    /\ IF job[j].out_file \notin DOMAIN fs
       THEN job' = Raise(j, "open", "No such file or directory")
       ELSE \/ job' = [job EXCEPT ![j].pc = "edit_done",
                                  ![j].video = fs[job[j].out_file].writer,
                                  ![j].calls = Log(j, "send_video", "ok")]
            \/ job' = Raise(j, "send_video", "Request Entity Too Large")
            \/ job' = Raise(j, "open", "Permission denied")
    /\ UNCHANGED <<fs, downloads_dir, arg, ret>>

\* variant: a clean-up after the done edit raises inside the try block
EditDoneThenRaise(j) ==
    /\ job[j].pc = "edit_done"
    /\ \/ job' = Edit(j, "edit_done", DONE, "done")
       \/ job' = [Edit(j, "edit_done", DONE, "except") EXCEPT ![j].exc = "No such file or directory"]
       \/ job' = Raise(j, "edit_done", "Timed out")
    /\ UNCHANGED <<fs, downloads_dir, arg, ret>>

\* await status.edit_text(done)
EditDone(j) ==
    /\ job[j].pc = "edit_done"
    /\ \/ job' = Edit(j, "edit_done", DONE, "done")
       \/ job' = Raise(j, "edit_done", "Timed out")
    /\ UNCHANGED <<fs, downloads_dir, arg, ret>>

\* except Exception as e: await status.edit_text(failed line); an exception
\* of this edit leaves the handler
EditFailed(j) ==
    /\ job[j].pc = "except"
    /\ \/ job' = Edit(j, "edit_failed", FailedLine(job[j].exc), "failed")
       \/ job' = [job EXCEPT ![j].pc = "aborted",
                             ![j].calls = Log(j, "edit_failed", "raise")]
    /\ UNCHANGED <<fs, downloads_dir, arg, ret>>

Step(j) ==
    \/ Receive(j)
    \/ Extract(j)
    \/ Resolve(j)
    \/ Prepare(j)
    \/ Remux(j)
    \/ EditUploading(j)
    \/ Upload(j)
    \/ EditDone(j)
    \/ EditFailed(j)

Init ==
    /\ job = [j \in Jobs |-> IdleJob]
    /\ fs = NoFiles
    /\ downloads_dir = FALSE
    /\ arg = [fn |-> "none"]
    /\ ret = Pending

Next == \E j \in Jobs : Step(j)

Spec == Init /\ [][Next]_vars

\* every call of the handler returns or raises
FairSpec == Spec /\ \A j \in Jobs : WF_vars(Step(j))

(***************************************************************************)
(* Properties                                                              *)
(***************************************************************************)
Range(s) == {s[i] : i \in 1..Len(s)}

\* the (slug, n) readings of a path as .../watch/{slug}/episode-{n}
FormsOf(path) ==
    {<<SubSeq(path, i + Len(WATCH), k - 1),
       SubSeq(path, k + Len(EPISODE), Len(path))>> :
        <<i, k>> \in {<<i, k>> \in (1..Len(path)) \X (1..Len(path)) :
            /\ i + Len(WATCH) < k
            /\ k + Len(EPISODE) - 1 <= Len(path)
            /\ SubSeq(path, i, i + Len(WATCH) - 1) = WATCH
            /\ SubSeq(path, k, k + Len(EPISODE) - 1) = EPISODE
            /\ "/" \notin Range(SubSeq(path, i + Len(WATCH), k - 1))
            /\ Range(SubSeq(path, k + Len(EPISODE), Len(path))) \cap {"-", "/"} = {}}}

\* C1: for every URL whose path reads .../watch/{slug}/episode-{n}, slug a
\* non-empty segment without '/', n a token without '-' and '/',
\* extract_slug_ep returns exactly (slug, n)
C1_ParserReturnsSlugAndEpisode ==
    (arg.fn = "extract_slug_ep" /\ ret.stage = "parsed") =>
        \A f \in FormsOf(UrlPath(BuildUrl(arg.case))) :
            ret.val = [ok |-> TRUE, slug |-> f[1], ep |-> f[2], exc |-> ""]

\* a URL with a path prefix, a '-' in the slug and a query string was parsed
C1_Witness ==
    /\ arg.fn = "extract_slug_ep"
    /\ ret.stage = "parsed"
    /\ arg.case.pre # <<>>
    /\ arg.case.tail = <<"?", "1">>
    /\ <<<<"a", "-">>, <<"1", "_">>>> \in FormsOf(UrlPath(BuildUrl(arg.case)))
    /\ ret.val.ok
    /\ ret.val.slug = <<"a", "-">>
    /\ ret.val.ep = <<"1", "_">>

\* HLS-flagged as the claim C2 reads it: type field, boolean flag or suffix
FlaggedHls(s) ==
    \/ s.type = "hls"
    \/ s.isHls
    \/ (s.hasUrl /\ EndsWith(s.url, M3U8))

Delivered(resp) == resp.net = "ok" /\ resp.status = 200 /\ resp.json

\* C2: the resolver returns the URL of the first source, in list order, that
\* is HLS-flagged by its type field, its isHls flag or its .m3u8 suffix
C2_FirstFlaggedSourceWins ==
    (/\ arg.fn = "get_m3u8_and_referer"
     /\ ret.stage = "resolved"
     /\ Delivered(arg.resp) /\ arg.resp.hasData /\ arg.resp.hasSources
     /\ \A i \in 1..Len(arg.resp.sources) : arg.resp.sources[i].hasUrl) =>
        LET flagged == {i \in 1..Len(arg.resp.sources) : FlaggedHls(arg.resp.sources[i])}
        IN  flagged # {} =>
              /\ ret.val.ok
              /\ ret.val.m3u8 = arg.resp.sources[Min(flagged)].url

HeaderArg(v) == <<"Referer: ">> \o v \o <<"\r\n">>

HeaderAt(cmd, v) ==
    \E i \in 1..(Len(cmd) - 1) : cmd[i] = <<"-headers">> /\ cmd[i + 1] = HeaderArg(v)

CopiesStream(cmd, m3u8, out) ==
    /\ Len(cmd) >= 7
    /\ cmd[1] = <<"ffmpeg">>
    /\ SubSeq(cmd, Len(cmd) - 4, Len(cmd)) = <<<<"-i">>, m3u8, <<"-c">>, <<"copy">>, out>>

OpsAt(j, op) == {i \in 1..Len(job[j].calls) : job[j].calls[i][1] = op}

WrittenBy(j) == {p \in DOMAIN fs : fs[p].writer = j}

NO_STREAM == "No HLS source found"

\* the response came back, and its source list is empty, missing or without
\* an HLS-flagged source
NoStream(resp) ==
    /\ Delivered(resp)
    /\ \/ ~resp.hasData
       \/ ~resp.hasSources
       \/ \A i \in 1..Len(resp.sources) : ~FlaggedHls(resp.sources[i])

\* C3 as stated: with no HLS-flagged source the handling ends with a final
\* status text that holds "Failed" and the resolver's message, the remux
\* tool was never invoked and the job created no output file
C3_NoStreamEndsWithFailedStatus ==
    \A j \in Jobs :
        (job[j].pc \in Ended /\ NoStream(job[j].resp)) =>
            /\ job[j].status = FailedLine(NO_STREAM)
            /\ OpsAt(j, "ffmpeg") = {}
            /\ WrittenBy(j) = {}

\* C3 amended: with no HLS-flagged source the resolver raises the "no stream
\* found" error and the handler makes one status edit to the failure line
\* with that message; the line is the final status text when that edit
\* succeeds, and when the edit itself raises the status stays at the
\* fetching text; the remux tool is never invoked and the job creates no
\* output file
C3_NoStreamFailsBeforeRemux ==
    \A j \in Jobs :
        NoStream(job[j].resp) =>
            LET n == Len(job[j].calls)
            IN  /\ job[j].exc = NO_STREAM
                /\ job[j].pc \in {"except", "failed", "aborted"}
                /\ job[j].pc = "except" =>
                      job[j].calls[n] = <<"requests.get", "raise">>
                /\ job[j].pc = "failed" =>
                      /\ job[j].calls[n] = <<"edit_failed", "ok">>
                      /\ job[j].status = <<"Failed: ", NO_STREAM>>
                /\ job[j].pc = "aborted" =>
                      /\ job[j].calls[n] = <<"edit_failed", "raise">>
                      /\ job[j].status = FETCHING
                /\ Cardinality(OpsAt(j, "edit_failed")) <= 1
                /\ OpsAt(j, "ffmpeg") = {}
                /\ job[j].cmd = <<>>
                /\ WrittenBy(j) = {}

\* a job met a source list without an HLS source and shows the failure line
C3_Witness ==
    \E j \in Jobs :
        /\ job[j].resp.sources = <<Mp4Source>>
        /\ NoStream(job[j].resp)
        /\ job[j].pc = "failed"
        /\ job[j].status = FailedLine(NO_STREAM)

\* the calls made inside the try block
TryOps ==
    {"extract_slug_ep", "requests.get", "edit_remuxing", "ffmpeg",
     "edit_uploading", "open", "send_video", "edit_done"}

\* C5, in every state: an exception of a call of the try block is followed by
\* nothing but one edit of the status to the failure line with its text
ExceptionBecomesFailureEdit ==
    \A j \in Jobs :
        LET c == job[j].calls
            n == Len(c)
        IN  \A i \in 1..n :
              (c[i][2] = "raise" /\ c[i][1] \in TryOps) =>
                 /\ job[j].exc # ""
                 /\ c[i][1] = "extract_slug_ep" => job[j].exc = "list index out of range"
                 /\ c[i][1] = "ffmpeg" => job[j].exc = "returned non-zero exit status 1"
                 /\ \/ i = n /\ job[j].pc = "except"
                    \/ /\ i = n - 1
                       /\ c[n][1] = "edit_failed"
                       /\ job[j].pc \in {"failed", "aborted"}
                       /\ c[n][2] = "ok" => job[j].status = <<"Failed: ", job[j].exc>>

\* C5, in every step: after the failure edit the job does nothing more
NothingAfterFailureEdit ==
    \A j \in Jobs : OpsAt(j, "edit_failed") # {} => job'[j] = job[j]

\* C5: an exception raised in steps 2 to 4 is caught and becomes one edit of
\* the status message to the failure line; after it nothing is retried
C5_ExceptionsCaughtOnceNoRetry ==
    []ExceptionBecomesFailureEdit /\ [][NothingAfterFailureEdit]_vars

\* a remux failure was reported on the status message
C5_Witness ==
    \E j \in Jobs :
        LET n == Len(job[j].calls)
        IN  /\ n >= 2
            /\ job[j].calls[n - 1] = <<"ffmpeg", "raise">>
            /\ job[j].calls[n] = <<"edit_failed", "ok">>
            /\ job[j].status = FailedLine("returned non-zero exit status 1")

SuccessOrder ==
    <<"reply_text", "extract_slug_ep", "requests.get", "edit_remuxing",
      "ffmpeg", "edit_uploading", "send_video", "edit_done">>

StatusOrder == <<FETCHING, REMUXING, UPLOADING, DONE>>

IsPrefix(s, t) == Len(s) <= Len(t) /\ s = SubSeq(t, 1, Len(s))

OkBefore(c, op, i) == \E h \in 1..(i - 1) : c[h] = <<op, "ok">>

\* C7: within a job the HTTP GET returns before the remux starts, the remux
\* exits with status 0 before the file is opened and uploaded, the upload
\* completes before the status is done; the status texts run fetching,
\* remuxing, uploading, done; at most one GET, one remux and one upload
C7_CallsInFixedOrder ==
    \A j \in Jobs :
        LET c == job[j].calls
            oks == {i \in 1..Len(c) : \A h \in 1..i : c[h][2] = "ok"}
        IN  /\ \A i \in oks : i <= Len(SuccessOrder) /\ c[i][1] = SuccessOrder[i]
            /\ \A i \in 1..Len(c) :
                  /\ c[i][1] = "ffmpeg" =>
                        OkBefore(c, "requests.get", i) /\ job[j].m3u8_url # NoStr
                  /\ c[i][1] \in {"open", "send_video"} => OkBefore(c, "ffmpeg", i)
                  /\ c[i][1] = "edit_done" => OkBefore(c, "send_video", i)
            /\ \A op \in {"requests.get", "ffmpeg", "send_video"} :
                  Cardinality(OpsAt(j, op)) <= 1
            /\ \/ IsPrefix(job[j].shown, StatusOrder)
               \/ /\ job[j].shown # <<>>
                  /\ Last(job[j].shown)[1] = "Failed: "
                  /\ IsPrefix(SubSeq(job[j].shown, 1, Len(job[j].shown) - 1), StatusOrder)
            /\ job[j].pc = "done" =>
                  /\ job[j].shown = StatusOrder
                  /\ [i \in 1..Len(c) |-> c[i][1]] = SuccessOrder

\* a job went through all four status texts
C7_Witness ==
    \E j \in Jobs :
        /\ job[j].pc = "done"
        /\ job[j].shown = StatusOrder
        /\ Len(job[j].calls) = 8

IsTerminalStatus(st) == st = DONE \/ (Len(st) = 2 /\ st[1] = "Failed: ")

\* C8 as stated, at the end of an invocation: the job shows a terminal
\* status, done or failed
C8_EndsInTerminalStatus ==
    \A j \in Jobs : job[j].pc \in Ended => IsTerminalStatus(job[j].status)

\* C8 amended, in every state: an ended invocation shows done, or the failure
\* line, or it was left by an exception of the initial reply or of the
\* failure edit and shows no terminal status; never done and failed both
EndedStatus ==
    \A j \in Jobs :
        LET n == Len(job[j].calls)
        IN  /\ job[j].pc = "done" => job[j].status = DONE
            /\ job[j].pc = "failed" => job[j].status = FailedLine(job[j].exc)
            /\ job[j].pc = "aborted" =>
                  /\ job[j].calls[n] \in {<<"reply_text", "raise">>, <<"edit_failed", "raise">>}
                  /\ ~IsTerminalStatus(job[j].status)
            /\ ~(DONE \in Range(job[j].shown)
                    /\ \E i \in 1..Len(job[j].shown) : job[j].shown[i][1] = "Failed: ")
            /\ IsTerminalStatus(job[j].status) => job[j].pc \in {"done", "failed"}

\* C8 amended, in every step: an ended invocation changes nothing any more
EndedIsFinal ==
    \A j \in Jobs : job[j].pc \in Ended => job'[j] = job[j]

\* C8 amended: if every call returns or raises, every invocation ends; it
\* ends in exactly one terminal status, done or failed and never both,
\* unless the initial reply or the failure edit itself raises, which leaves
\* the handler without a terminal status; after the end nothing changes
C8_EveryInvocationEnds ==
    /\ \A j \in Jobs : (job[j].pc # "idle") ~> (job[j].pc \in Ended)
    /\ []EndedStatus
    /\ [][EndedIsFinal]_vars

\* one job ended done and another ended failed
C8_Witness ==
    \E j, k \in Jobs :
        /\ job[j].pc = "done" /\ job[j].status = DONE
        /\ job[k].pc = "failed" /\ job[k].status = FailedLine(NO_STREAM)

\* C9: a job whose final status is the failure line has delivered no video
C9_FailedMeansNotDelivered ==
    \A j \in Jobs :
        (job[j].pc = "failed" /\ job[j].status[1] = "Failed: ") => job[j].video = 0

\* C10: two jobs have the same output path only when they have the same slug
\* and the same episode number
C10_SamePathSameEpisode ==
    \A j, k \in Jobs :
        (job[j].out_file # NoStr /\ job[j].out_file = job[k].out_file) =>
            (job[j].slug = job[k].slug /\ job[j].ep = job[k].ep)

====
